---- MODULE Spec2Model ----
(***************************************************************************)
(* set-gps-time: src/src/main.rs.  The reconciliation loop of main reads   *)
(* NMEA lines from a serial port, decodes $GPZDA/$GNZDA (date and time)    *)
(* or, after five $GPGGA lines, the time of day of the fifth, and sets the *)
(* host clock once.  A line is a sequence of bytes (one-character strings, *)
(* "C3"/"A9" being the two bytes of a non-ASCII character); a field is a   *)
(* sub-sequence between commas.  One action is one iteration of the loop.  *)
(***************************************************************************)
EXTENDS Integers, Sequences, FiniteSets, TLC

VARIABLES
    pc,            \* "loop": in the while loop; "exited": main has returned or panicked
    exit_code,     \* process exit status once exited (0 Ok, 1 Err, 101 panic), -1 while running
    seen_gpgga,    \* main.rs:30
    line,          \* main.rs:29, the line buffer
    stdout,        \* the lines printed with println!
    stderr,        \* the error reported by the runtime when main returns Err or panics
    set_calls,     \* arguments of every set_datetime_* invocation
    syscalls,      \* every external clock operation issued (settimeofday, systemsetup ...)
    clock,         \* the host wall clock as left by the operations that succeeded
    nread,         \* number of read_line calls made
    branch,        \* the match arm the last iteration took
    platform,      \* cfg(target_os)
    utc_today,     \* calendar date of chrono::offset::Utc::now()
    eof,           \* the transport has reported end of stream
    mono,          \* Instant::now(), the monotonic clock
    received_at,   \* main.rs:32
    malformed_seen, \* history: a line of a recognized tag that does not decode was read
    spin           \* parity of the number of loop iterations begun

vars == << pc, exit_code, seen_gpgga, line, stdout, stderr, set_calls, syscalls,
           clock, nread, branch, platform, utc_today, eof, mono, received_at,
           malformed_seen, spin >>

----------------------------------------------------------------------------
(* Bounds of the model *)

MaxLines == 6          \* read_line calls of one run
MaxElapsed == 1        \* received_at.elapsed() at most, in steps of 10 ms

(* Program constants *)

FallbackThreshold == 5         \* main.rs:66
TimeStatusLen == 9             \* main.rs:42
MillisPerUnit == 10            \* main.rs:49
ExitOk == 0                    \* main.rs:95, main returns Ok(())
ExitErr == 1                   \* main.rs:18, main returns Err
ExitPanic == 101               \* main.rs:18, main panics
Running == 0 - 1

----------------------------------------------------------------------------
(* Bytes and strings *)

Digits == {"0", "1", "2", "3", "4", "5", "6", "7", "8", "9"}

DigitVal(c) ==
    CASE c = "0" -> 0 [] c = "1" -> 1 [] c = "2" -> 2 [] c = "3" -> 3
      [] c = "4" -> 4 [] c = "5" -> 5 [] c = "6" -> 6 [] c = "7" -> 7
      [] c = "8" -> 8 [] c = "9" -> 9

ContByte == "A9"       \* a UTF-8 continuation byte: never a char boundary

GPZDA == << "$", "G", "P", "Z", "D", "A" >>
GNZDA == << "$", "G", "N", "Z", "D", "A" >>
GPGGA == << "$", "G", "P", "G", "G", "A" >>
GPRMC == << "$", "G", "P", "R", "M", "C" >>

(* str::split(','): the fields between the commas; never empty. *)
Split(s) ==
    LET commas == {i \in 1..Len(s) : s[i] = ","}
        \* offset of the k-th comma; 0 before the first field, Len(s) + 1 after the last
        At(k) == IF k = 0 THEN 0
                 ELSE IF k > Cardinality(commas) THEN Len(s) + 1
                 ELSE CHOOSE i \in commas : Cardinality({j \in commas : j < i}) = k - 1
    IN  [k \in 1..(Cardinality(commas) + 1) |-> SubSeq(s, At(k - 1) + 1, At(k) - 1)]

(* str::is_char_boundary, i a byte offset *)
IsCharBoundary(s, i) ==
    \/ i = 0
    \/ i = Len(s)
    \/ i < Len(s) /\ s[i + 1] # ContByte

(* s[a..b]: panics unless a <= b <= len and both are char boundaries *)
SliceOk(s, a, b) ==
    a <= b /\ b <= Len(s) /\ IsCharBoundary(s, a) /\ IsCharBoundary(s, b)

Slice(s, a, b) == SubSeq(s, a + 1, b)

(* value of a non-empty all-digit string *)
DigitsValue(s) ==
    LET V[i \in 0..Len(s)] == IF i = 0 THEN 0 ELSE V[i - 1] * 10 + DigitVal(s[i])
    IN  V[Len(s)]

AllDigits(s) == Len(s) > 0 /\ \A i \in 1..Len(s) : s[i] \in Digits

(* <u32 as FromStr>::from_str: an optional '+', then one or more digits.   *)
(* The fields of the model have at most five bytes: no overflow arises.    *)
ParseU32(s) ==
    IF Len(s) > 0 /\ s[1] = "+"
    THEN [ok |-> AllDigits(Tail(s)), v |-> IF AllDigits(Tail(s)) THEN DigitsValue(Tail(s)) ELSE 0]
    ELSE [ok |-> AllDigits(s), v |-> IF AllDigits(s) THEN DigitsValue(s) ELSE 0]

(* <i32 as FromStr>::from_str: an optional '+' or '-', then digits *)
ParseI32(s) ==
    IF Len(s) > 0 /\ s[1] = "-"
    THEN [ok |-> AllDigits(Tail(s)), v |-> IF AllDigits(Tail(s)) THEN 0 - DigitsValue(Tail(s)) ELSE 0]
    ELSE ParseU32(s)

----------------------------------------------------------------------------
(* chrono *)

IsLeapYear(y) == (y % 4 = 0 /\ y % 100 # 0) \/ y % 400 = 0

DaysInMonth(y, m) ==
    CASE m \in {1, 3, 5, 7, 8, 10, 12} -> 31
      [] m \in {4, 6, 9, 11} -> 30
      [] m = 2 -> IF IsLeapYear(y) THEN 29 ELSE 28
      [] OTHER -> 0

(* the day checked against 31 only, whatever the month *)
FromYmdOpt_AnyMonth31(y, m, d) ==
    /\ y >= -262143 /\ y <= 262142
    /\ m >= 1 /\ m <= 12
    /\ d >= 1 /\ d <= 31

(* NaiveDate::from_ymd_opt(year, month, day).is_some() *)
FromYmdOpt(y, m, d) ==
    /\ y >= -262143 /\ y <= 262142
    /\ m >= 1 /\ m <= 12
    /\ d >= 1 /\ d <= DaysInMonth(y, m)

(* NaiveTime::from_hms_milli_opt(hour, min, sec, milli).is_some() *)
FromHmsMilliOpt(h, mi, s, ms) ==
    /\ h < 24 /\ mi < 60 /\ s < 60
    /\ (ms < 1000 \/ (s = 59 /\ ms < 2000))

NoDate == << >>
NoTime == << >>
NoDatetime == [date |-> NoDate, time |-> NoTime]

MillisPerDay == 24 * 60 * 60 * 1000

MsOfDay(t) == ((t[1] * 60 + t[2]) * 60 + t[3]) * 1000 + t[4]

TimeOfMs(n) == << n \div 3600000, (n \div 60000) % 60, (n \div 1000) % 60, n % 1000 >>

NextDay(d) ==
    IF d[3] < DaysInMonth(d[1], d[2]) THEN << d[1], d[2], d[3] + 1 >>
    ELSE IF d[2] < 12 THEN << d[1], d[2] + 1, 1 >>
    ELSE << d[1] + 1, 1, 1 >>

(* DateTime + Duration, the duration e in milliseconds, e < one day *)
AddMillis(dt, e) ==
    LET n == MsOfDay(dt.time) + e
    IN  IF n < MillisPerDay
        THEN [date |-> dt.date, time |-> TimeOfMs(n)]
        ELSE [date |-> NextDay(dt.date), time |-> TimeOfMs(n - MillisPerDay)]

----------------------------------------------------------------------------
(* Decoding, main.rs:37-53 and main.rs:72-79 *)

Candidate(dt) == [kind |-> "ok", msg |-> "", datetime |-> dt]
DecodeErr(m) == [kind |-> "err", msg |-> m, datetime |-> NoDatetime]
DecodePanic(m) == [kind |-> "panic", msg |-> m, datetime |-> NoDatetime]

(* the sub-second field taken for hundredths of a millisecond count *)
Millis_Hundred(cc) == cc * 100

(* main.rs:49 and main.rs:76: the two-digit sub-second field, in milliseconds *)
Millis(cc) == cc * MillisPerUnit

(* byte offsets of the four components of a time-status field *)
HourAt == << 0, 2 >>
MinuteAt == << 2, 4 >>
SecondAt == << 4, 6 >>
SubsecAt_Shifted == << 6, 8 >>    \* the sub-second field read one byte early
SubsecAt == << 7, 9 >>

(* main.rs:46-49 and main.rs:73-76: slice and parse hour, minute, second,  *)
(* sub-second, in that order; the first failure ends the decoding.         *)
TimeFields(ts) ==
    LET Part(at) == IF SliceOk(ts, at[1], at[2])
                    THEN ParseU32(Slice(ts, at[1], at[2]))
                    ELSE [ok |-> FALSE, v |-> 0]
        Bad(at) == ~Part(at).ok
        order == << HourAt, MinuteAt, SecondAt, SubsecAt >>
        firstBad == IF \E i \in 1..4 : Bad(order[i])
                    THEN CHOOSE i \in 1..4 : Bad(order[i]) /\ \A j \in 1..(i - 1) : ~Bad(order[j])
                    ELSE 0
    IN  IF firstBad = 0
        THEN [kind |-> "ok", msg |-> "",
              time |-> << Part(HourAt).v, Part(MinuteAt).v, Part(SecondAt).v,
                          Millis(Part(SubsecAt).v) >>]
        ELSE IF ~SliceOk(ts, order[firstBad][1], order[firstBad][2])
        THEN [kind |-> "panic", msg |-> "byte index out of range or not a char boundary",
              time |-> NoTime]
        ELSE [kind |-> "err", msg |-> "ParseIntError", time |-> NoTime]

(* main.rs:42: the length check of the $GPZDA/$GNZDA branch *)
TimeStatusLenOk(ts) == Len(ts) = TimeStatusLen

(* main.rs:37-53: the $GPZDA/$GNZDA branch up to the candidate *)
DecodeZDA(fields) ==
    IF Len(fields) < 2 THEN DecodeErr("Missing UTC time status")
    ELSE IF Len(fields) < 3 THEN DecodeErr("Missing day")
    ELSE IF ~ParseU32(fields[3]).ok THEN DecodeErr("ParseIntError")
    ELSE IF Len(fields) < 4 THEN DecodeErr("Missing month")
    ELSE IF ~ParseU32(fields[4]).ok THEN DecodeErr("ParseIntError")
    ELSE IF Len(fields) < 5 THEN DecodeErr("Missing year")
    ELSE IF ~ParseI32(fields[5]).ok THEN DecodeErr("ParseIntError")
    ELSE IF ~TimeStatusLenOk(fields[2]) THEN DecodeErr("Invalid time status length")
    ELSE LET tf == TimeFields(fields[2])
             day == ParseU32(fields[3]).v
             month == ParseU32(fields[4]).v
             year == ParseI32(fields[5]).v
         IN  IF tf.kind = "panic" THEN DecodePanic(tf.msg)
             ELSE IF tf.kind = "err" THEN DecodeErr(tf.msg)
             ELSE IF ~FromYmdOpt(year, month, day) THEN DecodeErr("Invalid date received")
             ELSE IF ~FromHmsMilliOpt(tf.time[1], tf.time[2], tf.time[3], tf.time[4])
                  THEN DecodeErr("Invalid time received")
             ELSE Candidate([date |-> << year, month, day >>, time |-> tf.time])

(* main.rs:72-79: the $GPGGA branch once the fallback is taken; today is   *)
(* the date of Utc::now(), whose time of day with_time replaces.           *)
DecodeGGA(fields, today) ==
    IF Len(fields) < 2 THEN DecodeErr("Missing UTC time status")
    ELSE LET tf == TimeFields(fields[2])
         IN  IF tf.kind = "panic" THEN DecodePanic(tf.msg)
             ELSE IF tf.kind = "err" THEN DecodeErr(tf.msg)
             ELSE IF ~FromHmsMilliOpt(tf.time[1], tf.time[2], tf.time[3], tf.time[4])
                  THEN DecodeErr("Invalid time received")
             ELSE Candidate([date |-> today, time |-> tf.time])

(* main.rs:35-36, 64, 88: the match on the header *)
IsHighConfidence(header) == header = GPZDA \/ header = GNZDA
IsLowConfidence(header) == header = GPGGA

(* the fallback taken one report early *)
SkipsGGA_Early(n) == n < FallbackThreshold - 1

(* the fallback taken one report late *)
SkipsGGA_Late(n) == n <= FallbackThreshold

(* main.rs:66: the $GPGGA line is skipped while the count is below five *)
SkipsGGA(n) == n < FallbackThreshold

----------------------------------------------------------------------------
(* The lines the transport may deliver *)

TsSep5 == << "0", "8", "1", "5", "3", "0", "5", "0", "0" >>    \* 08:15:30, '5' at offset 6, sub-second 00
TsNoon == << "1", "2", "3", "5", "1", "9", ".", "0", "5" >>    \* 12:35:19.050
TsNoonX == << "1", "2", "3", "5", "1", "9", "x", "0", "5" >>    \* 12:35:19.050, 'x' at offset 6
TsLate == << "2", "3", "5", "9", "5", "9", ".", "9", "9" >>    \* 23:59:59.990
TsPlus == << "+", "1", "+", "2", "+", "3", ".", "+", "4" >>    \* from_str accepts a leading '+': 01:02:03.040
TsHour24 == << "2", "4", "0", "0", "0", "0", ".", "0", "0" >>    \* hour 24
TsMin60 == << "1", "2", "6", "0", "0", "0", ".", "0", "0" >>    \* minute 60
TsSec60 == << "1", "2", "3", "5", "6", "0", ".", "0", "0" >>    \* second 60
TsBadMin == << "1", "2", "x", "5", "1", "9", ".", "0", "0" >>    \* non-numeric minute
TsBadSub == << "1", "2", "3", "5", "1", "9", ".", "x", "0" >>    \* non-numeric sub-second
TsLen8 == << "1", "2", "3", "5", "1", "9", ".", "0" >>    \* 8 bytes
TsLen4 == << "1", "2", "3", "5" >>    \* 4 bytes
TsLen1 == << "1" >>    \* 1 byte
TsEmpty == <<  >>    \* empty
TsLen10 == << "1", "2", "3", "5", "1", "9", ".", "0", "5", "0" >>    \* 10 bytes
TsUtf8 == << "1", "C3", "A9", "5", "1", "9", ".", "0", "0" >>    \* 9 bytes, offset 2 inside a two-byte character

TimeStatuses == { TsSep5, TsNoon, TsNoonX, TsLate, TsPlus, TsHour24, TsMin60, TsSec60, TsBadMin, TsBadSub, TsLen8, TsLen4, TsLen1, TsEmpty, TsLen10, TsUtf8 }
GoodTimeStatuses == { TsNoon, TsLate }

Days == { << "2", "5" >>, << "2", "9" >>, << "3", "1" >>, << "x" >> }
Months == { << "0", "0" >>, << "0", "2" >>, << "0", "6" >>, << "1", "3" >> }
Years == { << "2", "0", "2", "3" >>, << "2", "0", "2", "4" >> }

Comma == << "," >>
Newline == << "\n" >>
ZdaTail == << ",", "0", "0", ",", "0", "0", "*", "4", "F", "\n" >>    \* local zone fields and checksum
GgaTail == << ",", "4", "8", "0", "7", ".", "0", "3", "8", ",", "N", "\n" >>

ZdaLine(tag, t, d, m, y) == tag \o Comma \o t \o Comma \o d \o Comma \o m \o Comma \o y \o ZdaTail
GgaLine(t) == GPGGA \o Comma \o t \o GgaTail

ZdaLines ==
    {ZdaLine(GPZDA, t, << "2", "5" >>, << "0", "6" >>, << "2", "0", "2", "4" >>) : t \in TimeStatuses}
    \cup {ZdaLine(GPZDA, t, d, m, y) : t \in GoodTimeStatuses, d \in Days, m \in Months, y \in Years}
    \cup {ZdaLine(GNZDA, TsNoon, << "2", "5" >>, << "0", "6" >>, << "2", "0", "2", "4" >>)}
    \cup {ZdaLine(GPZDA, t, << "3", "1" >>, << "0", "6" >>, << "2", "0", "2", "4" >>) :
            t \in {TsHour24, TsBadMin, TsLen8, TsUtf8}}

(* recognized lines with too few fields, the last two cut short by the end *)
(* of the stream                                                           *)
ShortLines ==
    { << "$", "G", "P", "Z", "D", "A", ",", "1", "2", "3", "5", "1", "9", ".", "0", "5", ",", "2", "5", ",", "0", "6", ",", "2", "0", "2", "4", "\n" >>,
      << "$", "G", "P", "Z", "D", "A", ",", "1", "2", "3", "5", "1", "9", ".", "0", "5", ",", "2", "5", "\n" >>,
      << "$", "G", "P", "Z", "D", "A", ",", "\n" >>,
      GPZDA, GPGGA }

GgaLines == {GgaLine(t) : t \in TimeStatuses}

(* lines of no recognized tag: another sentence, an empty line, a tag      *)
(* followed by no comma (its first field then holds the newline)           *)
OtherLines ==
    { << "$", "G", "P", "R", "M", "C", ",", "1", "2", "3", "5", "1", "9", ".", "0", "5", ",", "A", "\n" >>, Newline, GPGGA \o Newline, GPZDA \o Newline }

EndOfStream == << >>    \* read_line returns Ok(0) and appends nothing

Lines == ZdaLines \cup ShortLines \cup GgaLines \cup OtherLines \cup {EndOfStream}

Todays == { << 2024, 6, 25 >>, << 2023, 12, 31 >> }
Platforms == { "linux", "macos" }

----------------------------------------------------------------------------
(* The clock setters *)

Unset == [date |-> NoDate, time |-> NoTime, timeval |-> << >>]

Say(text, n) == [text |-> text, n |-> n]

(* days from 1970-01-01 to the civil date d, d not before 1970 *)
LeapsThrough(y) == (y \div 4) - (y \div 100) + (y \div 400)

DaysBeforeMonth(y, m) ==
    LET D[k \in 1..12] == IF k = 1 THEN 0 ELSE D[k - 1] + DaysInMonth(y, k - 1)
    IN  D[m]

DaysFromEpoch(d) ==
    365 * (d[1] - 1970) + (LeapsThrough(d[1] - 1) - LeapsThrough(1969))
    + DaysBeforeMonth(d[1], d[2]) + (d[3] - 1)

(* DateTime::timestamp(): whole seconds since the epoch *)
Timestamp(dt) ==
    DaysFromEpoch(dt.date) * 86400 + (dt.time[1] * 60 + dt.time[2]) * 60 + dt.time[3]

(* DateTime::timestamp_millis(), as << whole seconds, milliseconds >>: the *)
(* value is seconds * 1000 + milliseconds                                  *)
TimestampMillis(dt) == << Timestamp(dt), dt.time[4] >>

(* main.rs:176-190.  elapsed is received_at.elapsed(); result is what      *)
(* settimeofday returns.  tv_usec is millis * 1000 of main.rs:183, kept as *)
(* the pair of TimestampMillis.                                            *)
SetDatetimeLinux(datetime, elapsed, result) ==
    LET corrected == AddMillis(datetime, elapsed)
        timeval == [tv_sec |-> Timestamp(corrected), tv_usec |-> TimestampMillis(corrected)]
    IN  [ok |-> result # -1,
         msg |-> IF result = -1 THEN "last_os_error" ELSE "",
         ops |-> << [op |-> "settimeofday", arg |-> timeval, ok |-> result # -1,
                     elapsed |-> elapsed] >>,
         prints |-> << >>,
         clock |-> IF result = -1 THEN Unset
                   ELSE [date |-> NoDate, time |-> NoTime, timeval |-> timeval]]

(* outcome of one systemsetup sub-process *)
CmdOutcomes == { "ok", "status_fail", "spawn_err" }
NtpOutcomes == { "on", "off", "status_fail", "spawn_err" }

(* main.rs:100-130.  env.ntp: the -getusingnetworktime query; env.off: the *)
(* -setusingnetworktime off command.                                       *)
NtpOffMacos(env) ==
    LET get == [op |-> "getusingnetworktime", arg |-> << >>, ok |-> env.ntp \in {"on", "off"},
                elapsed |-> 0]
        off == [op |-> "setusingnetworktime off", arg |-> << >>, ok |-> env.off = "ok",
                elapsed |-> 0]
    IN  CASE env.ntp = "spawn_err" ->
               [ok |-> FALSE, msg |-> "Couldn't set Mac OS time", ops |-> << get >>, prints |-> << >>]
          [] env.ntp = "status_fail" ->
               [ok |-> TRUE, msg |-> "", ops |-> << get >>,
                prints |-> << Say("Failed to get network time setting.", 0) >>]
          [] env.ntp = "off" ->
               [ok |-> TRUE, msg |-> "", ops |-> << get >>, prints |-> << >>]
          [] env.ntp = "on" ->
               [ok |-> env.off = "ok",
                msg |-> CASE env.off = "ok" -> ""
                          [] env.off = "spawn_err" -> "Couldn't set Mac OS time"
                          [] env.off = "status_fail" -> "Failed to disable ntp.",
                ops |-> << get, off >>,
                prints |-> << Say("Disabling network time.", 0) >>]

CmdMsg(outcome) ==
    CASE outcome = "ok" -> ""
      [] outcome = "spawn_err" -> "Couldn't set Mac OS time"
      [] outcome = "status_fail" -> "Failed to set Mac OS time."

(* a failed command taken for a success *)
Fatal_Ignored(outcome) == FALSE

(* main.rs:152 and main.rs:166, with the `?` of main.rs:151 and :165: the  *)
(* command could not be run, or its exit status is not success             *)
Fatal(outcome) == outcome # "ok"

(* main.rs:135-171.  e1 and e2 are the two readings of                     *)
(* received_at.elapsed(), main.rs:142 and :156; the host's local zone is   *)
(* UTC, so the strings handed to systemsetup carry the UTC date and time.  *)
SetDatetimeMacos(datetime, e1, e2, env) ==
    LET ntp == NtpOffMacos(env)
        date_str == AddMillis(datetime, e1).date
        time_str == AddMillis(datetime, e2).time
        setdate == [op |-> "setdate", arg |-> date_str, ok |-> env.setdate = "ok",
                    elapsed |-> e1]
        settime == [op |-> "settime", arg |-> time_str, ok |-> env.settime = "ok",
                    elapsed |-> e2]
    IN  IF ~ntp.ok
        THEN [ok |-> FALSE, msg |-> ntp.msg, ops |-> ntp.ops, prints |-> ntp.prints,
              clock |-> Unset]
        ELSE IF Fatal(env.setdate)
        THEN [ok |-> FALSE, msg |-> CmdMsg(env.setdate), ops |-> ntp.ops \o << setdate >>,
              prints |-> ntp.prints, clock |-> Unset]
        ELSE IF Fatal(env.settime)
        THEN [ok |-> FALSE, msg |-> CmdMsg(env.settime),
              ops |-> ntp.ops \o << setdate, settime >>, prints |-> ntp.prints,
              clock |-> IF env.setdate = "ok"
                        THEN [date |-> date_str, time |-> NoTime, timeval |-> << >>]
                        ELSE Unset]
        ELSE [ok |-> TRUE, msg |-> "", ops |-> ntp.ops \o << setdate, settime >>,
              prints |-> ntp.prints,
              clock |-> [date |-> IF env.setdate = "ok" THEN date_str ELSE NoDate,
                         time |-> time_str, timeval |-> << >>]]

(* the outcomes of the environment that lead to different runs: a command  *)
(* that is never issued has the outcome "ok"                               *)
MacEnvs ==
    { env \in [ntp : NtpOutcomes, off : CmdOutcomes, setdate : CmdOutcomes, settime : CmdOutcomes] :
        /\ env.ntp # "on" => env.off = "ok"
        /\ ~NtpOffMacos(env).ok => env.setdate = "ok"
        /\ env.setdate # "ok" => env.settime = "ok" }

LinuxResults == { 0, -1 }

(* what received_at.elapsed() may return, in milliseconds *)
ElapsedChoices == {k * MillisPerUnit : k \in 0..MaxElapsed}

(* main.rs:55-58 and main.rs:81-84: the setter the build selects, under    *)
(* every outcome of its environment; the second reading of elapsed() is    *)
(* not before the first                                                    *)
SetDatetime(os, datetime) ==
    IF os = "macos"
    THEN {SetDatetimeMacos(datetime, e[1], e[2], env) :
            e \in {x \in ElapsedChoices \X ElapsedChoices : x[1] <= x[2]}, env \in MacEnvs}
    ELSE {SetDatetimeLinux(datetime, e, result) : e \in ElapsedChoices, result \in LinuxResults}

----------------------------------------------------------------------------
(* main *)

Init ==
    /\ pc = "loop"
    /\ exit_code = Running
    /\ seen_gpgga = 0
    /\ line = << >>
    /\ stdout = << >>
    /\ stderr = ""
    /\ set_calls = << >>
    /\ syscalls = << >>
    /\ clock = Unset
    /\ nread = 0
    /\ branch = "none"
    /\ platform \in Platforms
    /\ utc_today \in Todays
    /\ eof = FALSE
    /\ mono = 0
    /\ received_at = 0
    /\ malformed_seen = FALSE
    /\ spin = 0

(* main.rs:31: the loop is running and one more read is made.  At most     *)
(* MaxLines reads are followed up to the end of the stream; after it the   *)
(* loop is followed for as long as it runs.                                *)
CanRead == pc = "loop" /\ (nread < MaxLines \/ eof)

(* the reads and the instants are counted up to the end of the stream *)
Count(n) == IF eof THEN n ELSE n + 1

(* the mark of an earlier iteration kept *)
ReceivedAt_Stale(now, old) == old

(* main.rs:32: received_at is the instant read right after read_line *)
ReceivedAt(now, old) == now

(* main.rs:31-32: read_line returns Ok and appends input to the buffer,    *)
(* then Instant::now() is taken.  After the end of the stream every read   *)
(* returns Ok(0).                                                          *)
ReadOk(input) ==
    /\ eof => input = EndOfStream
    /\ nread' = Count(nread)
    /\ eof' = (eof \/ input = EndOfStream)
    /\ mono' = Count(mono)
    /\ spin' = 1 - spin
    /\ received_at' = ReceivedAt(mono', received_at)
    /\ UNCHANGED << platform, utc_today >>

(* main.rs:34: the first field of the buffer, which split always yields *)
Header(buf) == Split(buf)[1]

(* the break forgotten: the loop goes on after the clock is set *)
PcAfterSet_NoBreak == "loop"

(* main.rs:62 and main.rs:86: break leaves the loop, main returns Ok(()) *)
PcAfterSet == "exited"

(* main.rs:60: the $GPZDA/$GNZDA branch reports its success *)
ZdaSuccessPrints == << Say("Successfully set time!", 0) >>

(* main.rs:84-86: the $GPGGA branch prints nothing after the setter *)
GgaSuccessPrints == << >>

(* main.rs:55-62 and main.rs:81-86: a candidate was decoded; the setter is *)
(* called and returns r                                                    *)
Accept(buf, datetime, r, before, success) ==
    /\ line' = buf
    /\ set_calls' = Append(set_calls, [datetime |-> datetime, received_at |-> received_at'])
    /\ syscalls' = syscalls \o r.ops
    /\ clock' = IF r.clock = Unset THEN clock ELSE r.clock
    /\ stdout' = stdout \o before \o r.prints \o (IF r.ok THEN success ELSE << >>)
    /\ stderr' = r.msg
    /\ pc' = IF r.ok THEN PcAfterSet ELSE "exited"
    /\ exit_code' = IF r.ok THEN (IF PcAfterSet = "exited" THEN ExitOk ELSE Running)
                    ELSE ExitErr

(* the `?` and bail! of main.rs:37-52 and main.rs:72-78, and the panics of *)
(* the slices: main returns Err, or unwinds                                *)
Reject(buf, dec, before) ==
    /\ line' = buf
    /\ UNCHANGED << set_calls, syscalls, clock >>
    /\ stdout' = stdout \o before
    /\ stderr' = dec.msg
    /\ pc' = "exited"
    /\ exit_code' = IF dec.kind = "panic" THEN ExitPanic ELSE ExitErr

(* the buffer left as it is: read_line appends the next line to it *)
ResetLine_Keep(buf) == buf

(* main.rs:68 and main.rs:92: line.truncate(0) *)
ResetLine(buf) == << >>

(* main.rs:36-63 *)
ZDALine ==
    /\ CanRead
    /\ \E input \in Lines :
        LET buf == line \o input
            dec == DecodeZDA(Split(buf))
        IN  /\ ReadOk(input)
            /\ IsHighConfidence(Header(buf))
            /\ branch' = "zda"
            /\ malformed_seen' = (malformed_seen \/ dec.kind # "ok")
            /\ UNCHANGED seen_gpgga
            /\ IF dec.kind = "ok"
               THEN \E r \in SetDatetime(platform, dec.datetime) :
                        Accept(buf, dec.datetime, r, << >>, ZdaSuccessPrints)
               ELSE Reject(buf, dec, << >>)

(* main.rs:64-70: one of the first four $GPGGA lines *)
GGASkip ==
    /\ CanRead
    /\ \E input \in Lines :
        LET buf == line \o input
        IN  /\ ReadOk(input)
            /\ IsLowConfidence(Header(buf))
            /\ SkipsGGA(seen_gpgga + 1)
            /\ seen_gpgga' = seen_gpgga + 1
            /\ stdout' = Append(stdout, Say("Skipping $GPGGA. Fallback in n reports.",
                                            FallbackThreshold - seen_gpgga'))
            /\ line' = ResetLine(buf)
            /\ branch' = "gga_skip"
            /\ malformed_seen' = (malformed_seen \/ DecodeGGA(Split(buf), utc_today).kind # "ok")
            /\ UNCHANGED << pc, exit_code, stderr, set_calls, syscalls, clock >>

FallbackNotice == << Say("$GPZDA/$GNZDA not seen in 5 reports. Using UTC data from $GPGGA.", 0) >>

(* main.rs:64-87: the $GPGGA line that takes the fallback *)
GGAFallback ==
    /\ CanRead
    /\ \E input \in Lines :
        LET buf == line \o input
            dec == DecodeGGA(Split(buf), utc_today)
        IN  /\ ReadOk(input)
            /\ IsLowConfidence(Header(buf))
            /\ ~SkipsGGA(seen_gpgga + 1)
            /\ seen_gpgga' = seen_gpgga + 1
            /\ branch' = "gga_fallback"
            /\ malformed_seen' = (malformed_seen \/ dec.kind # "ok")
            /\ IF dec.kind = "ok"
               THEN \E r \in SetDatetime(platform, dec.datetime) :
                        Accept(buf, dec.datetime, r, FallbackNotice, GgaSuccessPrints)
               ELSE Reject(buf, dec, FallbackNotice)

(* main.rs:88-92: any other header; the buffer is reset for the next line *)
OtherLine ==
    /\ CanRead
    /\ \E input \in Lines :
        LET buf == line \o input
        IN  /\ ReadOk(input)
            /\ ~IsHighConfidence(Header(buf))
            /\ ~IsLowConfidence(Header(buf))
            /\ line' = ResetLine(buf)
            /\ branch' = "other"
            /\ UNCHANGED malformed_seen
            /\ UNCHANGED << pc, exit_code, seen_gpgga, stdout, stderr, set_calls, syscalls, clock >>

(* main.rs:31 and :95: read_line returns Err, `while let Ok(..)` ends the  *)
(* loop and main returns Ok(())                                            *)
ReadError ==
    /\ CanRead
    /\ nread' = Count(nread)
    /\ spin' = 1 - spin
    /\ branch' = "read_err"
    /\ pc' = "exited"
    /\ exit_code' = ExitOk
    /\ UNCHANGED << seen_gpgga, line, stdout, stderr, set_calls, syscalls, clock,
                    platform, utc_today, eof, mono, received_at, malformed_seen >>

Next == ZDALine \/ GGASkip \/ GGAFallback \/ OtherLine \/ ReadError

Spec == Init /\ [][Next]_vars

(* The process is never suspended for good: while an iteration of the loop *)
(* can be made, one is made.  Which result read_line returns is left to    *)
(* the transport.                                                          *)
FairSpec == Init /\ [][Next]_vars /\ WF_vars(Next)

----------------------------------------------------------------------------
(* Properties *)

(* the fields of the line in the buffer: after an iteration that ended the *)
(* run, the line it read                                                   *)
Fields == Split(line)

(* the last external operation set the clock and succeeded *)
SetOk ==
    /\ Len(syscalls) > 0
    /\ syscalls[Len(syscalls)].op \in {"settimeofday", "settime"}
    /\ syscalls[Len(syscalls)].ok

SuccessLines == Len(SelectSeq(stdout, LAMBDA m : m.text = "Successfully set time!"))
SkipLines == Len(SelectSeq(stdout, LAMBDA m : m.n > 0))

(* The sentence layout as the specification words it: HHMMSS?cc, two       *)
(* decimal digits each, any byte at the seventh place.                     *)
TwoDigits(t, i) == 10 * DigitVal(t[i]) + DigitVal(t[i + 1])

PlainTimeStatus(t) ==
    /\ Len(t) = 9
    /\ \A i \in {1, 2, 3, 4, 5, 6, 8, 9} : t[i] \in Digits
    /\ TwoDigits(t, 1) < 24 /\ TwoDigits(t, 3) < 60 /\ TwoDigits(t, 5) < 60

RefTime(t) == << TwoDigits(t, 1), TwoDigits(t, 3), TwoDigits(t, 5), TwoDigits(t, 8) * 10 >>

PlainDate(y, m, d) ==
    /\ AllDigits(y) /\ AllDigits(m) /\ AllDigits(d)
    /\ DigitsValue(m) \in 1..12
    /\ DigitsValue(d) \in 1..DaysInMonth(DigitsValue(y), DigitsValue(m))

(* the buffer holds a $GPZDA/$GNZDA sentence with a 9-byte time-status     *)
(* field and valid day, month and year fields                              *)
PlainZda ==
    /\ Len(Fields) >= 5
    /\ Fields[1] \in {GPZDA, GNZDA}
    /\ PlainTimeStatus(Fields[2])
    /\ PlainDate(Fields[5], Fields[4], Fields[3])

RefZda == [date |-> << DigitsValue(Fields[5]), DigitsValue(Fields[4]), DigitsValue(Fields[3]) >>,
           time |-> RefTime(Fields[2])]

(* the buffer holds a $GPGGA sentence with a 9-byte time-status field *)
PlainGga ==
    /\ Len(Fields) >= 2
    /\ Fields[1] = GPGGA
    /\ PlainTimeStatus(Fields[2])

(* C1: the clock setter is invoked at most once in a run, and once a       *)
(* clock-set has succeeded the run is over: no further line is read or     *)
(* processed.                                                              *)
C1_AtMostOneSetThenStop ==
    [][ /\ Len(set_calls') <= 1
        /\ SetOk' => pc' = "exited"
        /\ SetOk => (nread' = nread /\ set_calls' = set_calls /\ line' = line) ]_vars

(* C1 witness: the clock was set by a line that was not the first, while   *)
(* more reads were possible                                                *)
C1_Witness ==
    SetOk /\ Len(set_calls) = 1 /\ pc = "exited" /\ nread > 1 /\ nread < MaxLines

(* C2: a well-formed $GPZDA/$GNZDA line is the candidate applied, whatever *)
(* the count of $GPGGA lines before it (0 to 4); each of those lines left  *)
(* the loop running with no clock-set.                                     *)
C2_HighConfidenceWins ==
    /\ (branch = "zda" /\ PlainZda) =>
          /\ seen_gpgga \in 0..(FallbackThreshold - 1)
          /\ set_calls = << [datetime |-> DecodeZDA(Fields).datetime,
                             received_at |-> received_at] >>
          /\ DecodeZDA(Fields).kind = "ok"
    /\ branch = "gga_skip" => (pc = "loop" /\ set_calls = << >> /\ clock = Unset)
    /\ (seen_gpgga <= 4 /\ branch # "zda") => (set_calls = << >> /\ clock = Unset)

(* C2 witness: four $GPGGA lines, then a valid $GPZDA line sets the clock *)
C2_Witness ==
    branch = "zda" /\ PlainZda /\ seen_gpgga = 4 /\ SkipLines = 4 /\ SetOk

(* C3: the setter is called on a $GPGGA line exactly when it is the fifth  *)
(* of the run: the first four never call it, the fifth does if it is       *)
(* well-formed, however many unrecognized lines came in between.           *)
C3_FifthGGAAccepted ==
    /\ branch = "gga_skip" =>
          (seen_gpgga \in 1..4 /\ SkipLines = seen_gpgga /\ set_calls = << >> /\ pc = "loop")
    /\ branch = "gga_fallback" => (seen_gpgga = 5 /\ SkipLines = 4)
    /\ (branch = "gga_fallback" /\ PlainGga) =>
          (Len(set_calls) = 1 /\ set_calls[1].received_at = received_at)
    /\ (set_calls # << >> /\ branch # "zda") => branch = "gga_fallback"

(* C3 witness: the fifth $GPGGA line set the clock in a run of six lines,  *)
(* one of them unrecognized                                                *)
C3_Witness ==
    branch = "gga_fallback" /\ PlainGga /\ SetOk /\ nread = 6 /\ seen_gpgga = 5

(* C4 as claimed: after a failed read the run has ended with a non-zero    *)
(* status and the clock not set.                                           *)
C4_TransportErrorFatal ==
    branch = "read_err" =>
        (pc = "exited" /\ exit_code \notin {ExitOk, Running} /\ clock = Unset)

(* C5 as claimed: once a line of a recognized tag that does not decode has *)
(* been read, the run has ended with a failure status and the setter was   *)
(* never invoked.                                                          *)
C5_DecodeErrorAborts ==
    malformed_seen =>
        (pc = "exited" /\ exit_code \notin {ExitOk, Running} /\ set_calls = << >>)

(* C6: an iteration on a line of an unrecognized tag reports no error and  *)
(* leaves the count, the clock, the output and the (empty) line buffer as  *)
(* they were, so the next line is handled as if it were not received.      *)
C6_UnrecognizedNoChange ==
    [][ (branch' = "other" /\ nread' # nread) =>
          /\ line = << >> /\ line' = << >>
          /\ pc' = "loop" /\ exit_code' = Running
          /\ UNCHANGED << seen_gpgga, stdout, stderr, set_calls, syscalls, clock >> ]_vars

(* C6 witness: an unrecognized first line, then a valid $GPZDA line that   *)
(* sets the clock                                                          *)
C6_Witness ==
    /\ branch = "zda" /\ PlainZda /\ SetOk /\ nread = 2 /\ seen_gpgga = 0
    /\ set_calls = << [datetime |-> RefZda, received_at |-> received_at] >>

(* C7 as claimed: a time-status field whose length is not 9, in either     *)
(* family, ends the run with a reported error: no panic, no candidate.     *)
C7_BadLengthIsDecodeError ==
    (/\ branch \in {"zda", "gga_fallback"}
     /\ Len(Fields) >= 2
     /\ Len(Fields[2]) # TimeStatusLen) =>
        (exit_code = ExitErr /\ set_calls = << >>)

(* C8: a $GPZDA/$GNZDA line with a 9-byte time-status HHMMSS?cc and valid  *)
(* date fields decodes to year-month-day HH:MM:SS and cc * 10              *)
(* milliseconds, whatever the byte at offset 6.                            *)
C8_ZdaDecodedExactly ==
    (branch = "zda" /\ PlainZda) =>
        (Len(set_calls) = 1 /\ set_calls[1].datetime = RefZda)

(* C8 witness: a line with 'x' at offset 6 and one with sub-second 99 *)
C8_Witness ==
    /\ branch = "zda" /\ PlainZda /\ Len(set_calls) = 1
    /\ \/ Fields[2] = TsNoonX /\ set_calls[1].datetime.time = << 12, 35, 19, 50 >>
       \/ Fields[2] = TsLate /\ set_calls[1].datetime.time = << 23, 59, 59, 990 >>

(* C9 as claimed: the fifth $GPGGA line with time-status 081530500 is      *)
(* applied as 08:15:30.050 of the current UTC date.                        *)
C9_FallbackTime050 ==
    (branch = "gga_fallback" /\ PlainGga /\ Fields[2] = TsSep5) =>
        (Len(set_calls) = 1
         /\ set_calls[1].datetime = [date |-> utc_today, time |-> << 8, 15, 30, 50 >>])

(* C9 amended: the fifth $GPGGA line is applied as the current UTC date    *)
(* with the time of day HH:MM:SS and cc * 10 milliseconds of its           *)
(* time-status HHMMSS?cc; 081530500 gives 08:15:30.000.                    *)
C9_FallbackCombinesToday ==
    (branch = "gga_fallback" /\ PlainGga) =>
        /\ seen_gpgga = 5
        /\ Len(set_calls) = 1
        /\ set_calls[1].datetime = [date |-> utc_today, time |-> RefTime(Fields[2])]
        /\ Fields[2] = TsSep5 => set_calls[1].datetime.time = << 8, 15, 30, 0 >>

(* C9 witness: the fifth $GPGGA line carried 081530500 and set the clock *)
C9_Witness ==
    /\ branch = "gga_fallback" /\ PlainGga /\ Fields[2] = TsSep5 /\ SetOk
    /\ set_calls = << [datetime |-> [date |-> utc_today, time |-> << 8, 15, 30, 0 >>],
                       received_at |-> received_at] >>

(* C10 as claimed: a run that set the clock printed "Successfully set      *)
(* time!" once and exits 0; a run that ended in a fatal error did not      *)
(* print it.                                                               *)
C10_SuccessLinePrinted ==
    /\ SetOk => (SuccessLines = 1 /\ exit_code = ExitOk)
    /\ exit_code \in {ExitErr, ExitPanic} => SuccessLines = 0

(* the Gregorian calendar, as a table *)
RefMonthLengths == << 31, 28, 31, 30, 31, 30, 31, 31, 30, 31, 30, 31 >>

RefLeap(y) == IF y % 100 = 0 THEN y % 400 = 0 ELSE y % 4 = 0

RefDateExists(y, m, d) ==
    /\ m \in 1..12
    /\ d >= 1
    /\ d <= RefMonthLengths[m] + (IF m = 2 /\ RefLeap(y) THEN 1 ELSE 0)

(* no byte of a multi-byte character *)
IsAscii(t) == \A i \in 1..Len(t) : t[i] \notin {"C3", "A9"}

(* the buffer holds a $GPZDA/$GNZDA sentence whose day, month and year are *)
(* decimal numbers that name no day of the calendar                        *)
ImpossibleDateZda ==
    /\ Len(Fields) >= 5
    /\ Fields[1] \in {GPZDA, GNZDA}
    /\ AllDigits(Fields[3]) /\ AllDigits(Fields[4]) /\ AllDigits(Fields[5])
    /\ ~RefDateExists(DigitsValue(Fields[5]), DigitsValue(Fields[4]), DigitsValue(Fields[3]))

Corrected(e) == AddMillis(set_calls[1].datetime, e)

(* tv_usec, held as << s, ms >> for (s * 1000 + ms) * 1000 microseconds    *)
(* with 0 <= ms < 1000, is the sub-second part ms * 1000 exactly when      *)
(* s = 0; it is below 1,000,000 in no other case                           *)
TvUsecIs(u, ms) == u[1] = 0 /\ u[2] = ms

(* C12 as claimed: the timestamp applied to the host clock is the          *)
(* candidate's plus the time elapsed since the receipt mark of its line    *)
(* (the reading of elapsed() at the last clock operation); with no time    *)
(* elapsed it is the candidate's.                                          *)
C12_AppliedIsCandidatePlusElapsed ==
    SetOk =>
        LET want == Corrected(syscalls[Len(syscalls)].elapsed)
        IN  IF platform = "linux"
            THEN /\ clock.timeval.tv_sec = Timestamp(want)
                 /\ TvUsecIs(clock.timeval.tv_usec, want.time[4])
            ELSE clock.date = want.date /\ clock.time = want.time

(* C14 as claimed: the timeval passed to settimeofday is the corrected     *)
(* timestamp: tv_sec its whole seconds, tv_usec its sub-second part in     *)
(* microseconds.                                                           *)
C14_TimevalIsCorrected ==
    \A i \in 1..Len(syscalls) :
        syscalls[i].op = "settimeofday" =>
            /\ syscalls[i].arg.tv_sec = Timestamp(Corrected(syscalls[i].elapsed))
            /\ TvUsecIs(syscalls[i].arg.tv_usec, Corrected(syscalls[i].elapsed).time[4])

(* C15: the receipt mark handed to the setter is the instant taken in the  *)
(* iteration that read the accepted line, the latest reading of the        *)
(* monotonic clock, and not the mark of an earlier line.                   *)
C15_MarkOfAcceptedLine ==
    [][ set_calls' # set_calls =>
          /\ nread' = nread + 1
          /\ mono' = mono + 1
          /\ received_at' = mono'
          /\ set_calls'[Len(set_calls')].received_at = mono'
          /\ set_calls'[Len(set_calls')].received_at > received_at ]_vars

(* C15 witness: the third line read was accepted with the third mark *)
C15_Witness ==
    /\ Len(set_calls) = 1 /\ nread = 3 /\ mono = 3
    /\ set_calls[1].received_at = 3

OpRank(op) ==
    CASE op = "getusingnetworktime" -> 1
      [] op = "setusingnetworktime off" -> 2
      [] op = "setdate" -> 3
      [] op = "settime" -> 4
      [] OTHER -> 0

(* C16: systemsetup is run in the order network-time query, network-time   *)
(* off, set date, set time; a failed `off` or set-date is the last         *)
(* operation of the run and the run fails; a failed set-time fails the     *)
(* run; the time is only set after the date was.                           *)
C16_MacosStepsInOrder ==
    platform = "macos" =>
        /\ \A i \in 1..Len(syscalls) : OpRank(syscalls[i].op) > 0
        /\ \A i, j \in 1..Len(syscalls) :
              i < j => OpRank(syscalls[i].op) < OpRank(syscalls[j].op)
        /\ \A i \in 1..Len(syscalls) :
              /\ OpRank(syscalls[i].op) >= 3 => syscalls[1].op = "getusingnetworktime"
              /\ syscalls[i].op = "settime" =>
                    (i > 1 /\ syscalls[i - 1].op = "setdate" /\ syscalls[i - 1].ok)
              /\ (syscalls[i].op \in {"setusingnetworktime off", "setdate"} /\ ~syscalls[i].ok) =>
                    (i = Len(syscalls) /\ pc = "exited" /\ exit_code = ExitErr)
              /\ (syscalls[i].op = "settime" /\ ~syscalls[i].ok) =>
                    (pc = "exited" /\ exit_code = ExitErr)

(* C16 witness: network time was switched off, then set-date failed and    *)
(* ended the run                                                           *)
C16_Witness ==
    /\ platform = "macos" /\ Len(syscalls) = 3
    /\ syscalls[2].op = "setusingnetworktime off" /\ syscalls[2].ok
    /\ syscalls[3].op = "setdate" /\ ~syscalls[3].ok
    /\ pc = "exited" /\ exit_code = ExitErr

(* C17: seen_gpgga starts at 0, changes only by +1 and only in an          *)
(* iteration on a $GPGGA line, which always changes it; it never exceeds   *)
(* 5, and the run is over once it is 5.                                    *)
C17_StreakCounter ==
    /\ seen_gpgga = 0
    /\ [](seen_gpgga \in 0..FallbackThreshold)
    /\ [](seen_gpgga = FallbackThreshold => (pc = "exited" /\ branch = "gga_fallback"))
    /\ [][ /\ seen_gpgga' # seen_gpgga =>
                (seen_gpgga' = seen_gpgga + 1 /\ branch' \in {"gga_skip", "gga_fallback"})
           /\ (nread' # nread /\ branch' \in {"gga_skip", "gga_fallback"}) =>
                seen_gpgga' = seen_gpgga + 1 ]_vars

(* C17 witness: the fifth $GPGGA line ended the run with a fatal error *)
C17_Witness ==
    /\ seen_gpgga = 5 /\ SkipLines = 4 /\ pc = "exited"
    /\ exit_code = ExitErr /\ set_calls = << >>

(* C18: while the loop runs the line buffer is empty, so each read starts  *)
(* from an empty buffer; when a run ends in a recognized branch the buffer *)
(* holds exactly the one line of that iteration, with that branch's tag.   *)
C18_BufferEmptyAtRead ==
    /\ pc = "loop" => line = << >>
    /\ branch = "zda" => (line \in Lines /\ Fields[1] \in {GPZDA, GNZDA})
    /\ branch = "gga_fallback" => (line \in Lines /\ Fields[1] = GPGGA)

(* C18 witness: a skipped $GPGGA line and an unrecognized line, then a     *)
(* $GPZDA line decoded on its own                                          *)
C18_Witness ==
    /\ branch = "zda" /\ nread = 3 /\ seen_gpgga = 1 /\ SetOk
    /\ line \in ZdaLines

(* a line that is a candidate was delivered: a $GPZDA/$GNZDA line, or the  *)
(* $GPGGA line that takes the fallback, with valid fields                  *)
CandidateDelivered ==
    \/ branch = "zda" /\ PlainZda
    \/ branch = "gga_fallback" /\ PlainGga

(* the setter was invoked and reported a failure *)
SetterFailed == Len(set_calls) > 0 /\ ~SetOk

(* C13: once a candidate line has been delivered and the setter does not   *)
(* fail, the run reaches the state where the clock is set and the process  *)
(* has exited with status 0; and the process never exits with status 0     *)
(* without the clock having been set.                                      *)
C13_EventuallyAccepted ==
    /\ (CandidateDelivered /\ ~SetterFailed) ~>
            (pc = "exited" /\ exit_code = ExitOk /\ SetOk /\ clock # Unset)
    /\ [](exit_code = ExitOk => (SetOk /\ Len(set_calls) = 1))

(* C19: after the end of the stream, read before any candidate was         *)
(* accepted, the run terminates, and the clock is never set.               *)
C19_EndOfStreamTerminates ==
    /\ (eof /\ set_calls = << >>) ~> (pc = "exited")
    /\ [](eof => (set_calls = << >> /\ clock = Unset))

====
